---- MODULE Spec2Model ----
(***************************************************************************)
(* Model of the run guard, the event bus, the candidate store and the      *)
(* outreach flow of HackathonOrchestrator/core/server.py, together with    *)
(* the simulated orchestrator of core/main.py that POST /run drives from   *)
(* a worker thread.                                                        *)
(*                                                                         *)
(* The asyncio event loop runs one coroutine at a time, from one           *)
(* suspension point to the next.  The only suspension points of the code   *)
(* modelled here are asyncio.sleep, run_in_executor and the start of a     *)
(* task made by create_task: `await bus.emit(...)` puts on an unbounded    *)
(* asyncio.Queue and never suspends, and the provider calls (send_email,   *)
(* search_replies_by_ref_token, schedule_meeting) are synchronous.  A task *)
(* that is between two suspension points holds the loop (LoopIdle is       *)
(* false) and no request handler runs meanwhile.  The worker thread of     *)
(* POST /run is a real thread and interleaves freely.                      *)
(***************************************************************************)
EXTENDS Integers, Sequences, FiniteSets, TLC

\* ------------------------------------------------------------------ bounds
\* The work a behaviour may ask of the process: a request that starts a run
\* or changes a status costs 1, a run-flow request also 1 per candidate of its
\* list and 1 per tick of its window, a load or send request 1 and 1 per
\* candidate of its list, a demo request 1 and 1 per candidate of its
\* sequence, a schedule-on-reply request 1 per entry of its list (1 for an
\* empty list), an event put by bus_emit 1.
MaxWork == 4

\* Task objects alive at a time.  The guard admits one; the second slot is
\* there for the task a second admitted request would create.
MaxTasks == 2

Slots == 1..MaxTasks

\* GET /stream connections
MaxSubs == 2

SubIds == 1..MaxSubs

\* ------------------------------------------------------------ input values
Emails == {"a@x", "b@x"}
Subject == "Hi"

\* the candidate dicts a payload may carry: one with a name, one whose name
\* is empty, one without an email
CandPool ==
    { [name |-> "Ada", email |-> "a@x"],
      [name |-> "",    email |-> "b@x"],
      [name |-> "Zed", email |-> ""] }

\* the candidate dicts a POST /candidates/load payload may carry ("" stands
\* for a missing, None or empty field)
LoadPool ==
    { [name |-> "A", email |-> "a@x", expertise |-> "",   status |-> "Sourced"],
      [name |-> "",  email |-> "a@x", expertise |-> "ML", status |-> ""],
      [name |-> "B", email |-> "a@x", expertise |-> "",   status |-> "Contacted"],
      [name |-> "",  email |-> "b@x", expertise |-> "",   status |-> ""],
      [name |-> "Z", email |-> "",    expertise |-> "ML", status |-> "Sourced"] }

\* the candidate lists of length n
CandLists(n) == [1..n -> CandPool]

Templates == { "Hi {name}", "Hi {first}" }
Windows == 0..MaxWork    \* windowMinutes, in ticks of the clock
PollEvery == { 1 }       \* pollEverySeconds, in ticks of the clock
\* what a call of send_email or schedule_meeting does: it returns its text
\* or raises (tools/communication_tools.py:87-88, :161-162)
Outcomes == { "returns", "raises" }
\* the status of a PATCH payload: the handler passes on any string
PatchStatuses == { "Declined", "Accepted", "Maybe" }

\* ---------------------------------------------------------------- state
VARIABLES
    active_run,   \* bus.active_run
    owner,        \* the run whose request set active_run (0: none)
    queue,        \* bus.queue, the events put and not yet taken
    store,        \* candidate_store._store: email -> record, or NoRec
    hashSeed,     \* this process's hash() of the (email, subject) tuples
    task,         \* the run tasks, by slot
    nruns,        \* runs accepted so far
    work,         \* the work asked so far, against MaxWork
    clock,        \* asyncio.get_event_loop().time(), in ticks
    lastResp,     \* the last HTTP response sent
    loaded,       \* the dicts POST /candidates/load gave to load, in call order
    call,         \* the last call observed, with what it returned
    subs,         \* the GET /stream subscribers
    npub          \* events put on the bus by bus_emit

\* what the requests of the run guard and of the flow leave alone
auxVars == << loaded, call, subs, npub >>

vars == << active_run, owner, queue, store, hashSeed, task,
           nruns, work, clock, lastResp, loaded, call, subs, npub >>

\* ------------------------------------------------- correlation token
\* server.py:612 (and :504, :286): f"{hash((email, subject)) & 0xfffffff:x}".
\* hash() of a tuple of strings is fixed for the life of a process and differs
\* between processes; Init draws this process's values from HashTables.
HashMask == 268435455
HashModulus == HashMask + 1
HexBase == 16

HashKeys == Emails \X { Subject }

\* two processes: one whose hashes of the two keys differ in the low 28 bits,
\* one whose hashes agree there
HashTables ==
    { [k \in HashKeys |-> IF k[1] = "a@x" THEN 26 ELSE 255],
      [k \in HashKeys |-> IF k[1] = "a@x" THEN 26 ELSE HashModulus + 26] }

HexDigits == << "0", "1", "2", "3", "4", "5", "6", "7", "8", "9",
                "a", "b", "c", "d", "e", "f" >>

RECURSIVE Hex(_)
Hex(n) ==
    IF n < HexBase THEN HexDigits[n + 1]
    ELSE Hex(n \div HexBase) \o HexDigits[(n % HexBase) + 1]

\* x & 0xfffffff for x >= 0
Mask(x) == x % HashModulus

Token(email, subject) == Hex(Mask(hashSeed[<< email, subject >>]))

\* ------------------------------------------------------------ event bus
\* `by` is not part of the payload: it records the run whose task put the
\* event (0: a request handler)
Ev(kind, who, val, idx, list) ==
    [kind |-> kind, who |-> who, val |-> val, idx |-> idx, list |-> list, by |-> 0]

LogEv(tag) == Ev("log", "", tag, 0, <<>>)
StatusEv(email, status) == Ev("candidate_status", email, status, 0, <<>>)
IndexStatusEv(idx, status) == Ev("candidate_status", "", status, idx, <<>>)
CandidatesEv(list) == Ev("candidates", "", "", 0, list)
DoneEv(list) == Ev("done", "", "ok", 0, list)

\* variant of Emit: an event nobody waits for is dropped
Emit_DropsUnheard(q, ev) ==
    IF \E s \in SubIds : subs[s].state = "waiting" THEN Append(q, ev) ELSE q

\* EventBus.emit: queue.put on an unbounded queue
Emit(q, ev) == Append(q, ev)

RECURSIVE EmitAll(_, _)
EmitAll(q, evs) ==
    IF evs = <<>> THEN q ELSE EmitAll(Emit(q, Head(evs)), Tail(evs))

\* ------------------------------------------------------ candidate store
NoRef == "-"
NoRec == [email |-> "", name |-> "", expertise |-> "", status |-> "", refToken |-> NoRef]

\* the keys a candidate dict can put forward as its email: _store has an
\* entry for a key when the record under it is not NoRec
StoreKeys == Emails \cup { "" }

\* Python's `a or b` on strings (None and "" are both written "")
Or(a, b) == IF a # "" THEN a ELSE b

\* variant of LoadOne: the new dict replaces the record
LoadOne_Overwrite(st, c) ==
    IF c.email = "" THEN st
    ELSE [st EXCEPT ![c.email] =
             [ email     |-> c.email,
               name      |-> c.name,
               expertise |-> c.expertise,
               status    |-> Or(c.status, "Sourced"),
               refToken  |-> st[c.email].refToken ]]

\* variant of LoadOne: a dict without an email is stored like any other
LoadOne_NoSkip(st, c) ==
    LET rec == st[c.email]
        known == rec # NoRec
    IN  [st EXCEPT ![c.email] =
            [ email     |-> c.email,
              name      |-> Or(c.name, rec.name),
              expertise |-> Or(c.expertise, rec.expertise),
              status    |-> Or(c.status, IF known THEN rec.status ELSE "Sourced"),
              refToken  |-> rec.refToken ]]

\* one iteration of CandidateStore.load; c has name, email, expertise, status
LoadOne(st, c) ==
    IF c.email = "" THEN st
    ELSE LET rec == st[c.email]
             known == rec.email # ""
         IN  [st EXCEPT ![c.email] =
                 [ email     |-> c.email,
                   name      |-> Or(c.name, rec.name),
                   expertise |-> Or(c.expertise, rec.expertise),
                   status    |-> Or(c.status, IF known THEN rec.status ELSE "Sourced"),
                   refToken  |-> rec.refToken ]]

RECURSIVE Load(_, _)
Load(st, cs) ==
    IF cs = <<>> THEN st ELSE Load(LoadOne(st, Head(cs)), Tail(cs))

Known(st, email) == email \in DOMAIN st /\ st[email].email # ""

\* variant of UpdateStatus: an unknown email gets a record
UpdateStatus_Creates(st, email, status) ==
    [st EXCEPT ![email] = [email |-> email, name |-> @.name, expertise |-> @.expertise,
                           status |-> status, refToken |-> @.refToken]]

\* CandidateStore.update_status: None (store unchanged) for an unknown email
UpdateStatus(st, email, status) ==
    IF Known(st, email) THEN [st EXCEPT ![email].status = status] ELSE st

\* CandidateStore.set_ref
SetRef(st, email, ref) ==
    IF Known(st, email) THEN [st EXCEPT ![email].refToken = ref] ELSE st

\* ------------------------------------------------------------- run tasks
\* pc of a task: "none" (no task), "created" (create_task done, not started),
\* then for flow_task "sending", "check", "polling", "sleeping", and for
\* run_in_thread "executor"; "terminated" at the end.  The fields after
\* `tpos` record what the task has done and are read only by the properties:
\*   failedAt  the call whose exception left the task ("" if none)
\*   dones     done events the task has put
\*   attempts  emails send_email was called for, in call order
\*   writes    << email, status >> the task wrote to the store, in order
\*   meetings  emails schedule_meeting was called for, in call order
\*   replied   tokens for which a lookup returned messages
\*   foreign   emails whose status another request wrote after the task
\*             last wrote it
Blank ==
    [ kind |-> "none", pc |-> "none", id |-> 0,
      cands |-> <<>>, tmpl |-> "", window |-> 0, poll |-> 0,
      i |-> 0, enriched |-> <<>>, deadline |-> 0, scheduled |-> <<>>,
      mode |-> "", tpos |-> 0,
      failedAt |-> "", dones |-> 0,
      attempts |-> <<>>, writes |-> <<>>, meetings |-> <<>>, replied |-> {},
      foreign |-> {} ]

\* an event put by the task in slot r
Of(r, ev) == [ev EXCEPT !.by = task[r].id]

IdlePcs == { "none", "created", "sleeping", "executor", "terminated" }

\* no task is between two suspension points: the loop may run a handler
LoopIdle == \A r \in Slots : task[r].pc \in IdlePcs

Live(r) == task[r].pc \notin { "none", "terminated" }

Resp(ep, code, run) == [ep |-> ep, code |-> code, run |-> run]

\* a call of a method or an endpoint, with what it returned
Call(op, email, arg, ret) == [op |-> op, email |-> email, arg |-> arg, ret |-> ret]

NoCall == Call("", "", <<>>, <<>>)

\* a subscriber: state "none", "waiting" (in queue.get) or "cancelled";
\* since: the events put before it connected; got: the events it was given
NoSub == [state |-> "none", since |-> 0, got |-> <<>>]

\* the behaviour can still afford `cost`
Affords(cost) == work + cost <= MaxWork

\* create_task: the new task takes the first slot that holds no live task;
\* finished tasks are collected
HasFreeSlot == \E x \in Slots : ~Live(x)

FreeSlot == CHOOSE x \in Slots : ~Live(x) /\ \A y \in 1..(x - 1) : Live(y)

WithTask(rec) ==
    [x \in Slots |->
        IF x = FreeSlot THEN [rec EXCEPT !.id = nruns + 1]
        ELSE IF task[x].pc = "terminated" THEN Blank ELSE task[x]]

Init ==
    /\ active_run = FALSE
    /\ owner = 0
    /\ queue = <<>>
    /\ store = [k \in StoreKeys |-> NoRec]
    /\ hashSeed \in HashTables
    /\ task = [r \in Slots |-> Blank]
    /\ nruns = 0
    /\ work = 0
    /\ clock = 0
    /\ lastResp = Resp("", 0, 0)
    /\ loaded = <<>>
    /\ call = NoCall
    /\ subs = [s \in SubIds |-> NoSub]
    /\ npub = 0

\* --------------------------------------------------------- request paths
\* mutant of Conflict: the handler's cleanup also runs on the 409 path
Conflict_ClearsFlag(ep) ==
    /\ lastResp' = Resp(ep, 409, 0)
    /\ active_run' = FALSE
    /\ UNCHANGED << owner, queue, store, hashSeed, task, nruns, work, clock >>

\* server.py:97-98 and :586-587: `if bus.active_run: raise HTTPException(409)`
Conflict(ep) ==
    /\ lastResp' = Resp(ep, 409, 0)
    /\ UNCHANGED << active_run, owner, queue, store, hashSeed,
                    task, nruns, work, clock >>

\* mutant of RunActive: the guard is not consulted
RunActive_Unguarded == FALSE

\* server.py:97 and :586: the guard reads bus.active_run
RunActive == active_run

\* POST /run (start_run): guard, set the flag, create_task(run_in_thread())
start_run ==
    /\ LoopIdle
    /\ IF RunActive
       THEN Conflict("run")
       ELSE /\ Affords(1) /\ HasFreeSlot
            /\ work' = work + 1
            /\ active_run' = TRUE
            /\ owner' = nruns + 1
            /\ nruns' = nruns + 1
            /\ task' = WithTask([Blank EXCEPT !.kind = "run", !.pc = "created"])
            /\ lastResp' = Resp("run", 200, nruns + 1)
            /\ UNCHANGED << queue, store, hashSeed, clock >>
    /\ UNCHANGED auxVars

\* POST /outreach/run-flow (run_full_outreach_flow): guard, set the flag,
\* read the payload (int() of a field that does not convert raises out of the
\* handler: 500, no task), create_task(flow_task())
run_full_outreach_flow ==
    /\ LoopIdle
    /\ IF RunActive
       THEN Conflict("run-flow")
       ELSE \/ /\ HasFreeSlot
               /\ \E n \in 0..MaxWork, w \in Windows :
                     /\ Affords(1 + n + w)
                     /\ work' = work + 1 + n + w
                     /\ \E cs \in CandLists(n), tm \in Templates, p \in PollEvery :
                           task' = WithTask([Blank EXCEPT !.kind = "flow", !.pc = "created",
                                                          !.cands = cs, !.tmpl = tm,
                                                          !.window = w, !.poll = p])
               /\ active_run' = TRUE
               /\ owner' = nruns + 1
               /\ nruns' = nruns + 1
               /\ lastResp' = Resp("run-flow", 200, nruns + 1)
               /\ UNCHANGED << queue, store, hashSeed, clock >>
            \/ /\ active_run' = TRUE
               /\ owner' = 0
               /\ lastResp' = Resp("run-flow", 500, 0)
               /\ UNCHANGED << queue, store, hashSeed, task,
                               nruns, work, clock >>
    /\ UNCHANGED auxVars

\* PATCH /candidates/{email}/status (update_candidate_status)
update_candidate_status ==
    /\ LoopIdle
    /\ \E email \in Emails, status \in PatchStatuses :
          IF Known(store, email)
          THEN /\ Affords(1)
               /\ work' = work + 1
               /\ store' = UpdateStatus(store, email, status)
               /\ queue' = Emit(queue, StatusEv(email, status))
               /\ lastResp' = Resp("status", 200, 0)
               /\ task' = [r \in Slots |->
                              IF task[r].kind = "flow" /\ Live(r)
                              THEN [task[r] EXCEPT !.foreign = @ \cup { email }]
                              ELSE task[r]]
          ELSE /\ lastResp' = Resp("status", 404, 0)
               /\ store' = UpdateStatus(store, email, status)
               /\ UNCHANGED << queue, task, work >>
    /\ UNCHANGED << active_run, owner, hashSeed, nruns, clock >>
    /\ UNCHANGED auxVars

\* CandidateStore.all(), as the emails of the records (listed in key order)
RECURSIVE AllEmails(_, _)
AllEmails(st, keys) ==
    IF keys = {} THEN <<>>
    ELSE LET k == CHOOSE x \in keys : \A y \in keys : x = y \/ ~Known(st, y) \/ Known(st, x)
         IN  IF Known(st, k) THEN << k >> \o AllEmails(st, keys \ { k })
             ELSE AllEmails(st, keys \ { k })

\* POST /candidates/load (load_candidates): load the list, put a candidates
\* event with every record of the store
load_candidates ==
    /\ LoopIdle
    /\ \E n \in 0..MaxWork :
          /\ Affords(1 + n)
          /\ work' = work + 1 + n
          /\ \E cs \in [1..n -> LoadPool] :
                /\ store' = Load(store, cs)
                /\ loaded' = loaded \o cs
                /\ queue' = Emit(queue, CandidatesEv(AllEmails(Load(store, cs), Emails)))
    /\ lastResp' = Resp("load", 200, 0)
    /\ UNCHANGED << active_run, owner, hashSeed, task, nruns, clock,
                    call, subs, npub >>

\* str.format(name=...) raises KeyError for a placeholder other than {name}
FormatRaises(tmpl) == tmpl # "Hi {name}"

\* a call of CandidateStore.set_ref
store_set_ref ==
    /\ LoopIdle
    /\ \E email \in Emails, ref \in { "1a", "ff" } :
          /\ store' = SetRef(store, email, ref)
          /\ call' = Call("set_ref", email, << ref >>, <<>>)
    /\ UNCHANGED << active_run, owner, queue, hashSeed, task, nruns, work, clock,
                    lastResp, loaded, subs, npub >>

\* what send_email does for POST /outreach/send: it returns a JSON text, it
\* returns a text that is not JSON (tools/communication_tools.py:87), or raises
SendResults == { "json", "text", "raises" }

\* the dict a JSON result of send_email parses to
ParsedResult(email, ref) == [ok |-> TRUE, to |-> email, refToken |-> ref]

\* server.py:509-510: the entry kept when the result does not parse
UnparsedResult(email) == [ok |-> FALSE, to |-> email, refToken |-> ""]

\* server.py:499-514: the loop of send_outreach over the candidates left,
\* outs[k] being what send_email does for the k-th of them
RECURSIVE SendAll(_, _, _, _)
SendAll(acc, cs, outs, tmpl) ==
    IF cs = <<>> THEN acc
    ELSE LET c == Head(cs)
             name == Or(c.name, "there")
             ref == Token(c.email, Subject)
         IN  IF c.email = "" THEN SendAll(acc, Tail(cs), Tail(outs), tmpl)
             ELSE IF FormatRaises(tmpl) \/ Head(outs) = "raises"
             THEN [acc EXCEPT !.raised = TRUE]
             ELSE SendAll(
                    [ store  |-> SetRef(Load(acc.store,
                                             << [name |-> name, email |-> c.email,
                                                 expertise |-> "", status |-> "Contacted"] >>),
                                        c.email, ref),
                      queue  |-> Emit(acc.queue, StatusEv(c.email, "Contacted")),
                      sent   |-> Append(acc.sent,
                                        IF Head(outs) = "json"
                                        THEN ParsedResult(c.email, ref)
                                        ELSE UnparsedResult(c.email)),
                      raised |-> FALSE ],
                    Tail(cs), Tail(outs), tmpl)

\* POST /outreach/send (send_outreach): 400 for an empty list, else the loop;
\* an exception of format or send_email leaves the handler (500) with the
\* candidates before it already written
send_outreach ==
    /\ LoopIdle
    /\ \E n \in 0..MaxWork :
          IF n = 0
          THEN /\ lastResp' = Resp("send", 400, 0)
               /\ call' = Call("send_outreach", "", <<>>, <<>>)
               /\ UNCHANGED << store, queue, work >>
          ELSE /\ Affords(1 + n)
               /\ work' = work + 1 + n
               /\ \E cs \in CandLists(n), outs \in [1..n -> SendResults], tm \in Templates :
                     LET end == SendAll([store |-> store, queue |-> queue,
                                         sent |-> <<>>, raised |-> FALSE], cs, outs, tm)
                     IN  /\ store' = end.store
                         /\ queue' = end.queue
                         /\ lastResp' = Resp("send", IF end.raised THEN 500 ELSE 200, 0)
                         /\ call' = Call("send_outreach", "", cs,
                                         IF end.raised THEN <<>> ELSE end.sent)
    /\ UNCHANGED << active_run, owner, hashSeed, task, nruns, clock, loaded, subs, npub >>

\* ------------------------------------------ POST /outreach/send-individual
\* how the body is made: the GPT call returned a text, the template is
\* formatted (no key, or the GPT call failed), or the imports raise
BodyPaths == { "enhanced", "template", "raises" }

\* variant of IndividualRef: the hash is not masked
IndividualRef_Unmasked(email) == Hex(hashSeed[<< email, Subject >>])

\* server.py:286: f"{hash((candidate['email'], subject)) & 0xfffffff:x}"
IndividualRef(email) == Token(email, Subject)

\* POST /outreach/send-individual (send_individual_email): 400 without an
\* email; any exception inside the try is answered 500; else the record is
\* loaded as Contacted, the token stored, a log and a status event put.  No
\* mail is sent by this handler.
send_individual_email ==
    /\ LoopIdle
    /\ Affords(1)
    /\ work' = work + 1
    /\ \E c \in CandPool, tm \in Templates, path \in BodyPaths :
          IF c.email = ""
          THEN /\ lastResp' = Resp("send-individual", 400, 0)
               /\ call' = Call("send_individual", "", << c >>, <<>>)
               /\ UNCHANGED << store, queue >>
          ELSE IF path = "raises" \/ (path = "template" /\ FormatRaises(tm))
          THEN /\ lastResp' = Resp("send-individual", 500, 0)
               /\ call' = Call("send_individual", c.email, << c >>, <<>>)
               /\ UNCHANGED << store, queue >>
          ELSE /\ store' = SetRef(Load(store, << [name |-> c.name, email |-> c.email,
                                                  expertise |-> "", status |-> "Contacted"] >>),
                                  c.email, IndividualRef(c.email))
               /\ queue' = EmitAll(queue, << LogEv("enhanced-sent"),
                                             StatusEv(c.email, "Contacted") >>)
               /\ lastResp' = Resp("send-individual", 200, 0)
               /\ call' = Call("send_individual", c.email, << c >>,
                               << ParsedResult(c.email, IndividualRef(c.email)) >>)
    /\ UNCHANGED << active_run, owner, hashSeed, task, nruns, clock, loaded, subs, npub >>

\* --------------------------------------------------------- GET /stream
\* the n-th event a handler puts on the bus (idx carries n)
Numbered(n) == Ev("log", "", "event", n, <<>>)

\* a handler calls bus.emit
bus_emit ==
    /\ Affords(1)
    /\ work' = work + 1
    /\ npub' = npub + 1
    /\ queue' = Emit(queue, Numbered(npub + 1))
    /\ UNCHANGED << active_run, owner, store, hashSeed, task, nruns, clock,
                    lastResp, loaded, call, subs >>

\* GET /stream (stream_events): the generator of bus.sse() starts and waits
\* in queue.get()
sse_connect(s) ==
    /\ subs[s].state = "none"
    /\ subs' = [subs EXCEPT ![s] = [state |-> "waiting", since |-> npub, got |-> <<>>]]
    /\ UNCHANGED << active_run, owner, queue, store, hashSeed, task, nruns, work,
                    clock, lastResp, loaded, call, npub >>

\* variant of Take: the newest item is taken
Take_Lifo(q) == [item |-> q[Len(q)], rest |-> SubSeq(q, 1, Len(q) - 1)]

\* asyncio.Queue.get on a non-empty queue: the oldest item
Take(q) == [item |-> Head(q), rest |-> Tail(q)]

\* server.py:46-48: queue.get() returns to one waiting subscriber, which
\* yields the event to its client
sse_deliver(s) ==
    /\ subs[s].state = "waiting"
    /\ queue # <<>>
    /\ queue' = Take(queue).rest
    /\ subs' = [subs EXCEPT ![s].got = Append(@, Take(queue).item)]
    /\ UNCHANGED << active_run, owner, store, hashSeed, task, nruns, work,
                    clock, lastResp, loaded, call, npub >>

\* server.py:49-50: the client is gone, CancelledError ends the generator
sse_cancel(s) ==
    /\ subs[s].state = "waiting"
    /\ subs' = [subs EXCEPT ![s].state = "cancelled"]
    /\ UNCHANGED << active_run, owner, queue, store, hashSeed, task, nruns, work,
                    clock, lastResp, loaded, call, npub >>

\* ---------------------------------------------------------------- demo
\* what _read_contacts_csv may return: [] (no contacts.csv, or no row with
\* an email), or the rows that have an email, each with status "Sourced"
CsvContacts ==
    { <<>>,
      << [name |-> "A", email |-> "a@x", expertise |-> "ml", status |-> "Sourced"] >>,
      << [name |-> "A", email |-> "a@x", expertise |-> "ml", status |-> "Sourced"],
         [name |-> "B", email |-> "b@x", expertise |-> "bio", status |-> "Sourced"] >> }

\* the topic of GET /demo/run-topic, lower-cased
Topics == { "", "ml", "zz" }

\* `t in expertise.lower()` on the values above
TopicIn(t, c) == t = "" \/ c.expertise = t

\* server.py:215-218: the contacts whose expertise has the topic, or all of
\* them when none has
Filtered(t, all) ==
    LET hit(c) == TopicIn(t, c)
    IN  IF SelectSeq(all, hit) = <<>> THEN all ELSE SelectSeq(all, hit)

\* candidate_store.all() as the dicts the sequence reads
StoreAll(st) ==
    LET es == AllEmails(st, Emails)
    IN  [k \in 1..Len(es) |-> [name |-> st[es[k]].name, email |-> es[k],
                                expertise |-> st[es[k]].expertise,
                                status |-> st[es[k]].status]]

\* asyncio.create_task(_simulate_outreach_sequence(enriched))
DemoTask(enriched) ==
    WithTask([Blank EXCEPT !.kind = "demo", !.pc = "created", !.cands = enriched])

\* POST /demo/start-outreach (demo_start_outreach): bus.active_run is
\* neither read nor written
demo_start_outreach ==
    /\ LoopIdle
    /\ Affords(1 + Len(StoreAll(store)))
    /\ work' = work + 1 + Len(StoreAll(store))
    /\ IF StoreAll(store) = <<>>
       THEN /\ queue' = EmitAll(queue, << LogEv("no-candidates"), DoneEv(<<>>) >>)
            /\ lastResp' = Resp("demo-start", 200, 0)
            /\ UNCHANGED << task, nruns >>
       ELSE /\ HasFreeSlot
            /\ task' = DemoTask(StoreAll(store))
            /\ nruns' = nruns + 1
            /\ lastResp' = Resp("demo-start", 200, nruns + 1)
            /\ UNCHANGED queue
    /\ UNCHANGED << active_run, owner, store, hashSeed, clock >>
    /\ UNCHANGED auxVars

\* GET /demo/run-topic (demo_run_topic): bus.active_run is neither read nor
\* written
demo_run_topic ==
    /\ LoopIdle
    /\ \E all \in CsvContacts, t \in Topics :
          /\ Affords(1 + Len(Filtered(t, all)))
          /\ work' = work + 1 + Len(Filtered(t, all))
          /\ IF all = <<>>
             THEN /\ queue' = EmitAll(queue, << LogEv("no-contacts"), DoneEv(<<>>) >>)
                  /\ lastResp' = Resp("demo-topic", 200, 0)
                  /\ UNCHANGED << store, task, nruns >>
             ELSE /\ HasFreeSlot
                  /\ store' = Load(store, Filtered(t, all))
                  /\ queue' = EmitAll(queue,
                         << LogEv("found"),
                            CandidatesEv(AllEmails(Load(store, Filtered(t, all)), Emails)) >>)
                  /\ task' = DemoTask(Filtered(t, all))
                  /\ nruns' = nruns + 1
                  /\ lastResp' = Resp("demo-topic", 200, nruns + 1)
    /\ UNCHANGED << active_run, owner, hashSeed, clock >>
    /\ UNCHANGED auxVars

\* server.py:153-156: the sequence starts, puts its first log and sleeps
demo_begin(r) ==
    /\ task[r].kind = "demo" /\ task[r].pc = "created"
    /\ LoopIdle
    /\ queue' = Emit(queue, Of(r, LogEv("init")))
    /\ task' = [task EXCEPT ![r].pc = "sleeping", ![r].i = 1,
                            ![r].mode = IF task[r].cands = <<>> THEN "complete"
                                        ELSE "contact"]
    /\ UNCHANGED << active_run, owner, store, hashSeed, nruns, work, clock, lastResp >>
    /\ UNCHANGED auxVars

\* server.py:156-159: after the sleep, candidate i is contacted
demo_contact(r) ==
    /\ task[r].kind = "demo" /\ task[r].pc = "sleeping" /\ task[r].mode = "contact"
    /\ LoopIdle
    /\ LET e == task[r].cands[task[r].i]
       IN  /\ store' = UpdateStatus(store, e.email, "Contacted")
           /\ queue' = EmitAll(queue, << Of(r, LogEv("sending")),
                                         Of(r, StatusEv(e.email, "Contacted")) >>)
    /\ task' = [task EXCEPT ![r].i = @ + 1,
                            ![r].mode = IF task[r].i = Len(task[r].cands)
                                        THEN "accept" ELSE "contact"]
    /\ UNCHANGED << active_run, owner, hashSeed, nruns, work, clock, lastResp >>
    /\ UNCHANGED auxVars

\* server.py:162-167: after the sleep, the first candidate is accepted
demo_accept(r) ==
    /\ task[r].kind = "demo" /\ task[r].pc = "sleeping" /\ task[r].mode = "accept"
    /\ LoopIdle
    /\ LET first == task[r].cands[1]
       IN  /\ store' = UpdateStatus(store, first.email, "Accepted")
           /\ queue' = EmitAll(queue, << Of(r, LogEv("positive-reply")),
                                         Of(r, StatusEv(first.email, "Accepted")) >>)
    /\ task' = [task EXCEPT ![r].mode = "complete"]
    /\ UNCHANGED << active_run, owner, hashSeed, nruns, work, clock, lastResp >>
    /\ UNCHANGED auxVars

\* server.py:169-170: after the sleep, the "Task complete." log
demo_complete(r) ==
    /\ task[r].kind = "demo" /\ task[r].pc = "sleeping" /\ task[r].mode = "complete"
    /\ LoopIdle
    /\ queue' = Emit(queue, Of(r, LogEv("task-complete")))
    /\ task' = [task EXCEPT ![r].mode = "finish"]
    /\ UNCHANGED << active_run, owner, store, hashSeed, nruns, work, clock, lastResp >>
    /\ UNCHANGED auxVars

\* server.py:171-172: after the last sleep, done is put and the task ends
demo_finish(r) ==
    /\ task[r].kind = "demo" /\ task[r].pc = "sleeping" /\ task[r].mode = "finish"
    /\ LoopIdle
    /\ queue' = Emit(queue, Of(r, DoneEv(<<>>)))
    /\ task' = [task EXCEPT ![r].pc = "terminated", ![r].dones = @ + 1]
    /\ UNCHANGED << active_run, owner, store, hashSeed, nruns, work, clock, lastResp >>
    /\ UNCHANGED auxVars

\* ------------------------------------------------------------ flow_task
\* server.py:602-662.  Every step below runs with the loop held, from the
\* start of the task to its first asyncio.sleep and from one sleep to the next.

EnrichedEmails(en) == [k \in 1..Len(en) |-> en[k].email]

\* mutant of FlowRaise: the flag is cleared on the normal path only
FlowRaise_NoFinally(r, rec, q) ==
    /\ task' = [task EXCEPT ![r] = [rec EXCEPT !.pc = "terminated"]]
    /\ queue' = q
    /\ UNCHANGED << active_run, owner >>

\* an exception leaves the try block: the finally clause clears the flag
FlowRaise(r, rec, q) ==
    /\ task' = [task EXCEPT ![r] = [rec EXCEPT !.pc = "terminated"]]
    /\ active_run' = FALSE
    /\ owner' = 0
    /\ queue' = q

\* server.py:660-662: emit done, then the finally clause
FlowFinish(r, rec, q) ==
    /\ task' = [task EXCEPT ![r] = [rec EXCEPT !.pc = "terminated", !.dones = @ + 1]]
    /\ active_run' = FALSE
    /\ owner' = 0
    /\ queue' = Emit(q, Of(r, DoneEv(rec.scheduled)))

\* server.py:604
flow_begin(r) ==
    /\ task[r].kind = "flow" /\ task[r].pc = "created"
    /\ LoopIdle
    /\ queue' = Emit(queue, Of(r, LogEv("flow-start")))
    /\ task' = [task EXCEPT ![r].pc = "sending", ![r].i = 1]
    /\ UNCHANGED << active_run, owner, store, hashSeed, nruns,
                    work, clock, lastResp >>
    /\ UNCHANGED auxVars

\* mutant of SendOk: the candidate is tracked for polling but is neither
\* marked Contacted nor announced
SendOk_Unmarked(r, t, c, name, ref) ==
    /\ task' = [task EXCEPT ![r] =
                   [t EXCEPT !.i = @ + 1,
                             !.enriched = Append(@, [name |-> name, email |-> c.email,
                                                     refToken |-> ref, done |-> FALSE])]]
    /\ store' = SetRef(Load(store, << [name |-> name, email |-> c.email,
                                       expertise |-> "", status |-> ""] >>),
                       c.email, ref)
    /\ queue' = Emit(queue, Of(r, LogEv("sent")))
    /\ UNCHANGED << active_run, owner >>

\* server.py:620-624, after send_email returned
SendOk(r, t, c, name, ref) ==
    /\ task' = [task EXCEPT ![r] =
                   [t EXCEPT !.i = @ + 1,
                             !.enriched = Append(@, [name |-> name, email |-> c.email,
                                                     refToken |-> ref, done |-> FALSE]),
                             !.writes = Append(@, << c.email, "Contacted" >>),
                             !.foreign = @ \ { c.email }]]
    /\ store' = SetRef(Load(store, << [name |-> name, email |-> c.email,
                                       expertise |-> "", status |-> "Contacted"] >>),
                       c.email, ref)
    /\ queue' = EmitAll(queue, << Of(r, StatusEv(c.email, "Contacted")),
                                  Of(r, LogEv("sent")) >>)
    /\ UNCHANGED << active_run, owner >>

\* server.py:607-624: one iteration of the sending loop
flow_send(r) ==
    /\ task[r].kind = "flow" /\ task[r].pc = "sending"
    /\ task[r].i <= Len(task[r].cands)
    /\ LET t == task[r]
           c == t.cands[t.i]
           name == Or(c.name, "there")
       IN  IF c.email = ""
           THEN /\ task' = [task EXCEPT ![r].i = @ + 1]
                /\ UNCHANGED << active_run, owner, queue, store >>
           ELSE IF FormatRaises(t.tmpl)
           THEN /\ FlowRaise(r, [t EXCEPT !.failedAt = "render"], queue)
                /\ UNCHANGED store
           ELSE \E out \in Outcomes :
                   LET t2 == [t EXCEPT !.attempts = Append(@, c.email)]
                   IN  IF out = "raises"
                       THEN /\ FlowRaise(r, [t2 EXCEPT !.failedAt = "send"], queue)
                            /\ UNCHANGED store
                       ELSE SendOk(r, t2, c, name, Token(c.email, Subject))
    /\ UNCHANGED << hashSeed, nruns, work, clock, lastResp >>
    /\ UNCHANGED auxVars

\* server.py:626-633: the candidates event, the deadline
flow_sent(r) ==
    /\ task[r].kind = "flow" /\ task[r].pc = "sending"
    /\ task[r].i > Len(task[r].cands)
    /\ queue' = Emit(queue, Of(r, CandidatesEv(EnrichedEmails(task[r].enriched))))
    /\ task' = [task EXCEPT ![r].pc = "check",
                            ![r].deadline = clock + task[r].window]
    /\ UNCHANGED << active_run, owner, store, hashSeed, nruns,
                    work, clock, lastResp >>
    /\ UNCHANGED auxVars

\* server.py:634: while time() < deadline; :660-662 when the loop is left
flow_check(r) ==
    /\ task[r].kind = "flow" /\ task[r].pc = "check"
    /\ IF clock < task[r].deadline
       THEN /\ task' = [task EXCEPT ![r].pc = "polling", ![r].i = 1]
            /\ UNCHANGED << active_run, owner, queue >>
       ELSE FlowFinish(r, task[r], queue)
    /\ UNCHANGED << store, hashSeed, nruns, work, clock, lastResp >>
    /\ UNCHANGED auxVars

\* search_replies_by_ref_token (server.py:639) is not defined in
\* tools/communication_tools.py, and the send_email defined there takes no
\* ref_token.  The mailbox is outside the process: the lookup is given every
\* outcome a call can have, it returns no message, returns messages, or raises.
Lookups == { "empty", "reply", "raises" }

\* mutant of Truthy: `if msgs is not None:`
Truthy_NotNone(msgs) == msgs \in { "reply", "empty" }

\* server.py:640 `if msgs:` on the list a lookup returned
Truthy(msgs) == msgs = "reply"

\* server.py:653-657, after schedule_meeting returned
ScheduleOk(r, t, e, q) ==
    /\ task' = [task EXCEPT ![r] =
                   [t EXCEPT !.i = @ + 1,
                             !.enriched[t.i].done = TRUE,
                             !.scheduled = Append(@, e.email),
                             !.writes = Append(@, << e.email, "Accepted" >>),
                             !.foreign = @ \ { e.email }]]
    /\ store' = UpdateStatus(store, e.email, "Accepted")
    /\ queue' = EmitAll(q, << Of(r, StatusEv(e.email, "Accepted")),
                              Of(r, LogEv("meeting")) >>)
    /\ UNCHANGED << active_run, owner >>

\* server.py:635-657: one iteration of the for loop of a polling pass
flow_poll(r) ==
    /\ task[r].kind = "flow" /\ task[r].pc = "polling"
    /\ task[r].i <= Len(task[r].enriched)
    /\ LET t == task[r]
           e == t.enriched[t.i]
       IN  IF e.done
           THEN /\ task' = [task EXCEPT ![r].i = @ + 1]
                /\ UNCHANGED << active_run, owner, queue, store >>
           ELSE \E look \in Lookups :
                   IF look = "raises"
                   THEN /\ FlowRaise(r, [t EXCEPT !.failedAt = "lookup"], queue)
                        /\ UNCHANGED store
                   ELSE LET t2 == [t EXCEPT !.replied =
                                       IF look = "reply" THEN @ \cup { e.refToken } ELSE @]
                        IN  IF ~Truthy(look)
                            THEN /\ task' = [task EXCEPT ![r] = [t2 EXCEPT !.i = @ + 1]]
                                 /\ UNCHANGED << active_run, owner, queue, store >>
                            ELSE \E meet \in Outcomes :
                                    LET t3 == [t2 EXCEPT !.meetings = Append(@, e.email)]
                                        q1 == Emit(queue, Of(r, LogEv("reply")))
                                    IN  IF meet = "raises"
                                        THEN /\ FlowRaise(r, [t3 EXCEPT !.failedAt = "schedule"], q1)
                                             /\ UNCHANGED store
                                        ELSE ScheduleOk(r, t3, e, q1)
    /\ UNCHANGED << hashSeed, nruns, work, clock, lastResp >>
    /\ UNCHANGED auxVars

\* server.py:658: await asyncio.sleep(poll_interval), the loop is released
flow_sleep(r) ==
    /\ task[r].kind = "flow" /\ task[r].pc = "polling"
    /\ task[r].i > Len(task[r].enriched)
    /\ task' = [task EXCEPT ![r].pc = "sleeping"]
    /\ UNCHANGED << active_run, owner, queue, store, hashSeed,
                    nruns, work, clock, lastResp >>
    /\ UNCHANGED auxVars

\* the sleep is over: poll_interval ticks later the task is resumed
flow_wake(r) ==
    /\ task[r].kind = "flow" /\ task[r].pc = "sleeping"
    /\ LoopIdle
    /\ task' = [task EXCEPT ![r].pc = "check"]
    /\ clock' = clock + task[r].poll
    /\ UNCHANGED << active_run, owner, queue, store, hashSeed,
                    nruns, work, lastResp >>
    /\ UNCHANGED auxVars

\* ------------------------------------------- run_in_thread, run_orchestrator
\* core/main.py:38-42
MockEmails == << "e.reed@example.com", "m.jin@example.com", "a.sharma@example.com" >>

\* variant of DummyScript: the positive reply is the second candidate's
DummyScript_AcceptsSecond ==
    << LogEv("dummy-mode"), LogEv("search"), LogEv("found-3"),
       CandidatesEv(MockEmails),
       LogEv("sourcing-complete"), LogEv("init-outreach"),
       LogEv("sending"), IndexStatusEv(0, "Contacted"),
       LogEv("sending"), IndexStatusEv(1, "Contacted"),
       LogEv("sending"), IndexStatusEv(2, "Contacted"),
       LogEv("positive-reply"), IndexStatusEv(1, "Accepted"),
       LogEv("scheduling-complete"), LogEv("crew-complete-simulated") >>

\* core/main.py:32-79: what the simulated run hands to on_log,
\* on_candidates_found and on_candidate_status, in call order
DummyScript ==
    << LogEv("dummy-mode"), LogEv("search"), LogEv("found-3"),
       CandidatesEv(MockEmails),
       LogEv("sourcing-complete"), LogEv("init-outreach"),
       LogEv("sending"), IndexStatusEv(0, "Contacted"),
       LogEv("sending"), IndexStatusEv(1, "Contacted"),
       LogEv("sending"), IndexStatusEv(2, "Contacted"),
       LogEv("positive-reply"), IndexStatusEv(0, "Accepted"),
       LogEv("scheduling-complete"), LogEv("crew-complete-simulated") >>

\* core/main.py:106-108: the logs after crew.kickoff() returned
CrewScript == << LogEv("crew-complete"), LogEv("crew-result") >>

Script(mode) == IF mode = "dummy" THEN DummyScript ELSE CrewScript

\* server.py:116-127: the task starts and hands run_orchestrator to the executor
run_begin(r) ==
    /\ task[r].kind = "run" /\ task[r].pc = "created"
    /\ LoopIdle
    /\ task' = [task EXCEPT ![r].pc = "executor", ![r].mode = "launch"]
    /\ UNCHANGED << active_run, owner, queue, store, hashSeed, nruns, work,
                    clock, lastResp >>
    /\ UNCHANGED auxVars

\* core/main.py:27-30: the first log, then DUMMY_RUN / OPENAI_API_KEY decide
orchestrator_launch(r) ==
    /\ task[r].kind = "run" /\ task[r].pc = "executor" /\ task[r].mode = "launch"
    /\ LoopIdle
    /\ queue' = Emit(queue, Of(r, LogEv("launch")))
    /\ \E m \in { "dummy", "crew" } :
          task' = [task EXCEPT ![r].mode = m, ![r].tpos = 0]
    /\ UNCHANGED << active_run, owner, store, hashSeed, nruns, work, clock, lastResp >>
    /\ UNCHANGED auxVars

\* one callback of the worker thread: run_coroutine_threadsafe(bus.emit(..))
\* (server.py:104-114), run by the loop in the order of the calls
orchestrator_step(r) ==
    /\ task[r].kind = "run" /\ task[r].pc = "executor"
    /\ task[r].mode \in { "dummy", "crew" }
    /\ task[r].tpos < Len(Script(task[r].mode))
    /\ LoopIdle
    /\ queue' = Emit(queue, Of(r, Script(task[r].mode)[task[r].tpos + 1]))
    /\ task' = [task EXCEPT ![r].tpos = @ + 1]
    /\ UNCHANGED << active_run, owner, store, hashSeed, nruns, work, clock, lastResp >>
    /\ UNCHANGED auxVars

\* core/main.py:83-106: the imports or crew.kickoff() raise in the thread
orchestrator_raise(r) ==
    /\ task[r].kind = "run" /\ task[r].pc = "executor"
    /\ task[r].mode = "crew" /\ task[r].tpos = 0
    /\ task' = [task EXCEPT ![r].mode = "raised", ![r].failedAt = "crew"]
    /\ UNCHANGED << active_run, owner, queue, store, hashSeed, nruns, work,
                    clock, lastResp >>
    /\ UNCHANGED auxVars

\* variant of ThreadOver: the await returns while the thread still runs
ThreadOver_AnyTime(t) == t.mode \in { "raised", "dummy", "crew" }

\* the executor future is done: run_orchestrator has returned or raised
ThreadOver(t) ==
    \/ t.mode = "raised"
    \/ t.mode \in { "dummy", "crew" } /\ t.tpos = Len(Script(t.mode))

\* mutant of RunFinally: done is put, the flag is left set
RunFinally_KeepsFlag(r) ==
    /\ queue' = Emit(queue, Of(r, DoneEv(<<>>)))
    /\ task' = [task EXCEPT ![r].pc = "terminated", ![r].dones = @ + 1]
    /\ UNCHANGED << active_run, owner >>

\* server.py:128-130: finally: emit done, clear the flag
RunFinally(r) ==
    /\ queue' = Emit(queue, Of(r, DoneEv(<<>>)))
    /\ active_run' = FALSE
    /\ owner' = 0
    /\ task' = [task EXCEPT ![r].pc = "terminated", ![r].dones = @ + 1]

\* the executor future is done: run_in_thread resumes in its finally clause
run_finally(r) ==
    /\ task[r].kind = "run" /\ task[r].pc = "executor"
    /\ ThreadOver(task[r])
    /\ LoopIdle
    /\ RunFinally(r)
    /\ UNCHANGED << store, hashSeed, nruns, work, clock, lastResp >>
    /\ UNCHANGED auxVars

Next ==
    \/ start_run
    \/ run_full_outreach_flow
    \/ update_candidate_status
    \/ \E r \in Slots :
          \/ flow_begin(r)
          \/ flow_send(r)
          \/ flow_sent(r)
          \/ flow_check(r)
          \/ flow_poll(r)
          \/ flow_sleep(r)
          \/ flow_wake(r)
          \/ run_begin(r)
          \/ orchestrator_launch(r)
          \/ orchestrator_step(r)
          \/ orchestrator_raise(r)
          \/ run_finally(r)

Spec == Init /\ [][Next]_vars

\* ------------------------------------------ POST /outreach/schedule-on-reply
\* the entries a payload may list ("" stands for a missing or empty field)
SchedPool ==
    { [email |-> "a@x", refToken |-> "1a"],
      [email |-> "b@x", refToken |-> "ff"],
      [email |-> "",    refToken |-> "1a"],
      [email |-> "a@x", refToken |-> ""] }

\* what the provider does for one entry: the lookup, and schedule_meeting
\* when the lookup returned a reply
SchedOutcomes ==
    { o \in [msgs : Lookups, meet : Outcomes] : o.msgs = "reply" \/ o.meet = "returns" }

\* the provider is not called for an entry
NotAsked == [msgs |-> "empty", meet |-> "returns"]

\* variant of Skipped: the token is not looked at
Skipped_EmailOnly(c) == c.email = ""

\* server.py:547-548: `if not email or not ref: continue`
Skipped(c) == c.email = "" \/ c.refToken = ""

\* server.py:544-565: the loop of schedule_on_reply over the entries left,
\* outs[k] being what the provider does for the k-th of them
RECURSIVE SchedAll(_, _, _)
SchedAll(acc, cs, outs) ==
    IF cs = <<>> THEN acc
    ELSE LET c == Head(cs)
             o == Head(outs)
         IN  IF Skipped(c) THEN SchedAll(acc, Tail(cs), Tail(outs))
             ELSE IF o.msgs = "raises" THEN [acc EXCEPT !.raised = TRUE]
             ELSE IF ~Truthy(o.msgs) THEN SchedAll(acc, Tail(cs), Tail(outs))
             ELSE IF o.meet = "raises" THEN [acc EXCEPT !.raised = TRUE]
             ELSE SchedAll(
                    [ store     |-> UpdateStatus(acc.store, c.email, "Accepted"),
                      queue     |-> EmitAll(acc.queue, << StatusEv(c.email, "Accepted"),
                                                          LogEv("meeting") >>),
                      scheduled |-> Append(acc.scheduled, c.email),
                      raised    |-> FALSE ],
                    Tail(cs), Tail(outs))

\* one listed entry with what the provider did for it
Asked(c, o) == [email |-> c.email, refToken |-> c.refToken, msgs |-> o.msgs, meet |-> o.meet]

\* the work of a request that lists n entries
SchedCost(n) == IF n = 0 THEN 1 ELSE n

\* POST /outreach/schedule-on-reply (schedule_on_reply): int() of a duration
\* that does not convert raises before the loop (500); an exception of the
\* lookup or of schedule_meeting leaves the handler (500) with the entries
\* before it already scheduled
schedule_on_reply ==
    /\ LoopIdle
    /\ \/ /\ Affords(1)
          /\ work' = work + 1
          /\ lastResp' = Resp("schedule-on-reply", 500, 0)
          /\ call' = Call("schedule_on_reply", "", <<>>, <<>>)
          /\ UNCHANGED << store, queue >>
       \/ \E n \in 0..MaxWork :
             /\ Affords(SchedCost(n))
             /\ work' = work + SchedCost(n)
             /\ \E cs \in [1..n -> SchedPool], outs \in [1..n -> SchedOutcomes] :
                   /\ \A k \in 1..n : Skipped(cs[k]) => outs[k] = NotAsked
                   /\ LET end == SchedAll([store |-> store, queue |-> queue,
                                           scheduled |-> <<>>, raised |-> FALSE], cs, outs)
                      IN  /\ store' = end.store
                          /\ queue' = end.queue
                          /\ lastResp' = Resp("schedule-on-reply",
                                              IF end.raised THEN 500 ELSE 200, 0)
                          /\ call' = Call("schedule_on_reply", "",
                                          [k \in 1..n |-> Asked(cs[k], outs[k])],
                                          end.scheduled)
    /\ UNCHANGED << active_run, owner, hashSeed, task, nruns, clock, loaded, subs, npub >>

\* POST /candidates/load and POST /outreach/schedule-on-reply
NextSched ==
    \/ load_candidates
    \/ schedule_on_reply

SpecSched == Init /\ [][NextSched]_vars

\* a step of a task that the loop, the executor or the clock has made ready
TaskStep ==
    \E r \in Slots :
        \/ flow_begin(r)
        \/ flow_send(r)
        \/ flow_sent(r)
        \/ flow_check(r)
        \/ flow_poll(r)
        \/ flow_sleep(r)
        \/ flow_wake(r)
        \/ run_begin(r)
        \/ orchestrator_launch(r)
        \/ orchestrator_step(r)
        \/ run_finally(r)

\* the loop runs every ready task, the thread runs on, every sleep ends and
\* every provider call comes back; requests may stop coming at any time
SpecLive == Init /\ [][Next]_vars /\ WF_vars(TaskStep)

\* the three ways to send: POST /outreach/send, POST /outreach/send-individual
\* and a run of POST /outreach/run-flow
NextSend ==
    \/ send_outreach
    \/ send_individual_email
    \/ run_full_outreach_flow
    \/ \E r \in Slots :
          \/ flow_begin(r)
          \/ flow_send(r)
          \/ flow_sent(r)
          \/ flow_check(r)
          \/ flow_poll(r)
          \/ flow_sleep(r)
          \/ flow_wake(r)

SpecSend == Init /\ [][NextSend]_vars

\* the demo endpoints next to POST /run, up to the point where the task of
\* the run waits for its executor (what the thread does is in Next)
NextDemo ==
    \/ demo_start_outreach
    \/ demo_run_topic
    \/ start_run
    \/ \E r \in Slots :
          \/ demo_begin(r)
          \/ demo_contact(r)
          \/ demo_accept(r)
          \/ demo_complete(r)
          \/ demo_finish(r)
          \/ run_begin(r)

SpecDemo == Init /\ [][NextDemo]_vars

\* the event bus and its subscribers
NextBus ==
    \/ bus_emit
    \/ \E s \in SubIds :
          \/ sse_connect(s)
          \/ sse_deliver(s)
          \/ sse_cancel(s)

SpecBus == Init /\ [][NextBus]_vars

\* the requests that write the candidate store
NextStore ==
    \/ load_candidates
    \/ update_candidate_status
    \/ store_set_ref
    \/ send_outreach

SpecStore == Init /\ [][NextStore]_vars

\* POST /candidates/load alone
NextLoad == load_candidates

SpecLoad == Init /\ [][NextLoad]_vars

\* ================================================================ claims
LiveTasks == { r \in Slots : Live(r) }

Terminated(r) == task[r].pc = "terminated"

Ends(r) == task[r].pc # "terminated" /\ task'[r].pc = "terminated"

IsFlow(r) == task[r].kind = "flow"

\* the events the run of slot r has put, in order
RunEvents(r) ==
    LET mine(ev) == ev.by = task[r].id IN SelectSeq(queue, mine)

Count(seq, x) == Cardinality({ k \in 1..Len(seq) : seq[k] = x })

HasEmail(c) == c.email # ""

\* a run request was answered in this step
RunRequestAnswered ==
    lastResp' # lastResp /\ lastResp'.ep \in { "run", "run-flow" }

\* C1: at most one run task (run_in_thread or flow_task) is live at any time,
\* and a POST /run or POST /outreach/run-flow that arrives while
\* bus.active_run is set is answered 409 and starts no task.
C1_AtMostOneRunTask ==
    [][ /\ Cardinality(LiveTasks') <= 1
        /\ (active_run /\ RunRequestAnswered) =>
               (lastResp'.code = 409 /\ task' = task /\ nruns' = nruns) ]_vars

C1_Witness ==
    /\ lastResp.code = 409
    /\ \E r \in Slots : Live(r) /\ task[r].pc \in { "sleeping", "executor" }

\* C2: a run request answered 409 leaves the candidate store, the run-active
\* flag and the event queue as they were.
C2_ConflictChangesNothing ==
    [][ (lastResp' # lastResp /\ lastResp'.code = 409) =>
            UNCHANGED << store, active_run, queue >> ]_vars

C2_Witness ==
    /\ lastResp.code = 409
    /\ active_run
    /\ queue # <<>>
    /\ \E e \in Emails : Known(store, e)

\* C3: in the step in which a run task terminates, by returning or by an
\* exception that left it, bus.active_run is false afterwards.
C3_FlagClearedWhenTaskEnds ==
    [][ \A r \in Slots : Ends(r) => ~active_run' ]_vars

C3_Witness ==
    \E r \in Slots :
        /\ Terminated(r) /\ IsFlow(r)
        /\ task[r].failedAt = "send"
        /\ ~active_run

\* C4: when a run has put its done event and has finished its last step,
\* bus.active_run is not still set by that run.
C4_FlagNotLeftSetAfterDone ==
    \A r \in Slots :
        (Terminated(r) /\ task[r].dones > 0) => ~(active_run /\ owner = task[r].id)

C4_Witness ==
    \E r \in Slots :
        /\ Terminated(r) /\ task[r].dones > 0
        /\ queue # <<>> /\ queue[Len(queue)].kind = "done"
        /\ ~active_run

\* C5: every run that has ended has put exactly one done event, also the run
\* in which a provider call failed.
C5_ExactlyOneDone ==
    \A r \in Slots : Terminated(r) => task[r].dones = 1

\* C6: when send_email raised for a candidate of a run-flow run, the run has
\* called send_email for every candidate of its list that has an email.
C6_SendFailureDoesNotAbort ==
    \A r \in Slots :
        (IsFlow(r) /\ Terminated(r) /\ task[r].failedAt = "send") =>
            Len(task[r].attempts) = Len(SelectSeq(task[r].cands, HasEmail))

\* C7: when the reply lookup or schedule_meeting raised for a candidate while
\* a candidate with another email was unresolved, the polling loop of the run
\* went on until the deadline.
C7_PollFailureDoesNotAbort ==
    \A r \in Slots :
        ( /\ IsFlow(r) /\ Terminated(r)
          /\ task[r].failedAt \in { "lookup", "schedule" }
          /\ \E k \in 1..Len(task[r].enriched) :
                /\ task[r].enriched[k].email # task[r].enriched[task[r].i].email
                /\ ~task[r].enriched[k].done ) =>
            clock >= task[r].deadline

\* C8: within a run-flow run, an Accepted status event for a candidate of the
\* run comes after a Contacted status event for the same email, and the run
\* writes Accepted to the store only after it wrote Contacted for that email.
C8_ContactedBeforeAccepted ==
    \A r \in Slots :
        IsFlow(r) =>
            LET ev == RunEvents(r)
                w == task[r].writes
            IN  /\ \A j \in 1..Len(ev) :
                      (ev[j].kind = "candidate_status" /\ ev[j].val = "Accepted") =>
                          \E k \in 1..(j - 1) : ev[k] = Of(r, StatusEv(ev[j].who, "Contacted"))
                /\ \A j \in 1..Len(w) :
                      w[j][2] = "Accepted" =>
                          \E k \in 1..(j - 1) : w[k] = << w[j][1], "Contacted" >>

C8_Witness ==
    \E r \in Slots :
        /\ IsFlow(r)
        /\ \E j \in 1..Len(RunEvents(r)) : RunEvents(r)[j] = Of(r, StatusEv("a@x", "Accepted"))
        /\ store["a@x"].status = "Accepted"

\* C9: in a run-flow run schedule_meeting is called at most once per email and
\* at most one Accepted event is put per email.
C9_ScheduledAtMostOnce ==
    \A r \in Slots :
        IsFlow(r) =>
            \A e \in Emails :
                /\ Count(task[r].meetings, e) <= 1
                /\ Count(RunEvents(r), Of(r, StatusEv(e, "Accepted"))) <= 1

\* the candidates of run r that were sent to and whose token returned no reply
Unreplied(r) ==
    { task[r].enriched[k].email :
        k \in { n \in 1..Len(task[r].enriched) :
                   task[r].enriched[n].refToken \notin task[r].replied } }

NotAcceptedBy(r, e) ==
    /\ Count(task[r].writes, << e, "Accepted" >>) = 0
    /\ Count(task[r].meetings, e) = 0

\* C10, as claimed: when a run-flow run ends, a candidate that was sent to and
\* whose token returned no reply has status Contacted, no Accepted event and
\* no meeting.
C10_UnrepliedStaysContacted ==
    [][ \A r \in Slots :
          (IsFlow(r) /\ Ends(r)) =>
              \A e \in Unreplied(r)' :
                  /\ NotAcceptedBy(r, e)'
                  /\ Count(RunEvents(r), Of(r, StatusEv(e, "Accepted")))' = 0
                  /\ store'[e].status = "Contacted" ]_vars

\* C10, amended: when a run-flow run ends, for a candidate that was sent to
\* and whose token returned no reply, the run has put no Accepted event and
\* called schedule_meeting for no meeting with it, and its status is Contacted
\* unless another request wrote the status of that candidate after the run
\* marked it Contacted.
C10_UnrepliedLeftAloneByRun ==
    [][ \A r \in Slots :
          (IsFlow(r) /\ Ends(r)) =>
              \A e \in Unreplied(r)' :
                  /\ NotAcceptedBy(r, e)'
                  /\ Count(RunEvents(r), Of(r, StatusEv(e, "Accepted")))' = 0
                  /\ (e \notin task'[r].foreign) => store'[e].status = "Contacted" ]_vars

C10_Witness ==
    \E r \in Slots :
        /\ IsFlow(r) /\ Terminated(r) /\ task[r].dones = 1
        /\ task[r].window > 0
        /\ "a@x" \in Unreplied(r)
        /\ store["a@x"].status = "Contacted"
        /\ Len(task[r].scheduled) > 0

\* the last event the run of slot r has put is `ev`
LastEventIs(r, ev) ==
    /\ Len(RunEvents(r)) > 0
    /\ RunEvents(r)[Len(RunEvents(r))] = Of(r, ev)

\* C11: a run-flow run with windowMinutes = 0 never enters a polling pass (no
\* lookup, no schedule_meeting) and never sleeps, and when it ends it has put
\* done, with an empty scheduled list, as its last event.
C11_ZeroWindowSkipsPollingAndPutsDone ==
    [][ \A r \in Slots :
          (IsFlow(r) /\ task[r].window = 0) =>
              /\ task'[r].pc \notin { "polling", "sleeping" }
              /\ Ends(r) => ( /\ task'[r].dones = 1
                              /\ task'[r].meetings = <<>>
                              /\ LastEventIs(r, DoneEv(<<>>))' ) ]_vars

\* C12: a run-flow run does not sleep another poll interval once every
\* candidate it sent to is resolved.
C12_LoopExitsWhenAllResolved ==
    \A r \in Slots :
        (IsFlow(r) /\ task[r].pc = "sleeping" /\ Len(task[r].enriched) > 0) =>
            \E k \in 1..Len(task[r].enriched) : ~task[r].enriched[k].done

IsCandidatesEv(ev) == ev.kind = "candidates"

IsContactedEv(ev) == ev.kind = "candidate_status" /\ ev.val = "Contacted"

IsAcceptedEv(ev) == ev.kind = "candidate_status" /\ ev.val = "Accepted"

\* C18: a POST /run run in simulation mode that has ended has put one
\* candidates event, with 3 records; one Contacted event per candidate index
\* and no other; exactly one Accepted event, for index 0; and done last.
C18_SimulatedRunEvents ==
    \A r \in Slots :
        (task[r].kind = "run" /\ Terminated(r) /\ task[r].mode = "dummy") =>
            /\ Len(SelectSeq(RunEvents(r), IsCandidatesEv)) = 1
            /\ Len(SelectSeq(RunEvents(r), IsCandidatesEv)[1].list) = 3
            /\ Len(SelectSeq(RunEvents(r), IsContactedEv)) = 3
            /\ \A idx \in 0..2 :
                  Count(RunEvents(r), Of(r, IndexStatusEv(idx, "Contacted"))) = 1
            /\ SelectSeq(RunEvents(r), IsAcceptedEv) = << Of(r, IndexStatusEv(0, "Accepted")) >>
            /\ Count(RunEvents(r), Of(r, DoneEv(<<>>))) = 1
            /\ LastEventIs(r, DoneEv(<<>>))

C18_Witness ==
    \E r \in Slots :
        /\ task[r].kind = "run" /\ Terminated(r) /\ task[r].mode = "dummy"
        /\ Len(RunEvents(r)) = Len(DummyScript) + 2

\* the dicts of a load history that name `email`
LoadedFor(hist, email) ==
    LET mine(c) == c.email = email IN SelectSeq(hist, mine)

\* the last non-empty value a history gives a field, or dflt
LastGiven(hist, field, dflt) ==
    LET given(c) == c[field] # ""
        vals == SelectSeq(hist, given)
    IN  IF vals = <<>> THEN dflt ELSE vals[Len(vals)][field]

\* C13: after any sequence of load calls, there is a record for an email
\* exactly when a loaded dict named it, and its name, expertise and status are
\* the last non-empty values given for that email (status Sourced when none
\* was given); a dict without an email changes nothing.
C13_LoadIsLastWriteWinsMerge ==
    \A e \in StoreKeys :
        LET hist == LoadedFor(loaded, e)
        IN  IF e = "" \/ hist = <<>>
            THEN store[e] = NoRec
            ELSE /\ store[e].email = e
                 /\ store[e].name = LastGiven(hist, "name", "")
                 /\ store[e].expertise = LastGiven(hist, "expertise", "")
                 /\ store[e].status = LastGiven(hist, "status", "Sourced")

\* scenario C: {name A, status Sourced} then {name "", expertise ML}
C13_Witness ==
    /\ Len(loaded) >= 2
    /\ loaded[1] = [name |-> "A", email |-> "a@x", expertise |-> "", status |-> "Sourced"]
    /\ loaded[2] = [name |-> "", email |-> "a@x", expertise |-> "ML", status |-> ""]
    /\ store["a@x"].name = "A"
    /\ store["a@x"].expertise = "ML"
    /\ store["a@x"].status = "Sourced"

\* every record is stored under its own, non-empty email
StoreKeyed(st) ==
    \A k \in StoreKeys : st[k] # NoRec => (k # "" /\ st[k].email = k)

NoEmail(c) == c.email = ""

\* the dicts POST /candidates/load handed to load in this step
JustLoaded == SubSeq(loaded', Len(loaded) + 1, Len(loaded'))

\* POST /outreach/send was answered in this step
SendAnswered == call' # call /\ call'.op = "send_outreach" /\ call'.arg # <<>>

PatchAnswered(code) ==
    lastResp' # lastResp /\ lastResp' = Resp("status", code, 0)

\* C15: a PATCH answered 404 leaves the store and the queue as they were, a
\* PATCH is answered 200 only for an email the store has, and then writes that
\* record's status and puts one candidate_status event; set_ref for an email
\* the store does not have leaves the store as it was.
C15_UnknownEmailChangesNothing ==
    [][ /\ PatchAnswered(404) => UNCHANGED << store, queue >>
        /\ PatchAnswered(200) =>
               \E e \in Emails, st \in PatchStatuses :
                   /\ Known(store, e)
                   /\ store' = [store EXCEPT ![e].status = st]
                   /\ queue' = Append(queue, StatusEv(e, st))
        /\ (call' # call /\ call'.op = "set_ref" /\ ~Known(store, call'.email)) =>
               store' = store ]_vars

C15_Witness ==
    /\ lastResp = Resp("status", 404, 0)
    /\ call.op = "set_ref" /\ ~Known(store, call.email)
    /\ \E e \in Emails : Known(store, e)

\* C20: a POST /outreach/send answered 200 returns, for every candidate
\* with an email, a result for that email with a non-empty correlation token,
\* and has put a Contacted event for it.
C20_SendReturnsTokens ==
    [][ (SendAnswered /\ lastResp'.code = 200) =>
            \A k \in 1..Len(call'.arg) :
                call'.arg[k].email # "" =>
                    /\ \E j \in 1..Len(call'.ret) :
                          /\ call'.ret[j].to = call'.arg[k].email
                          /\ call'.ret[j].refToken # ""
                    /\ \E j \in (Len(queue) + 1)..Len(queue') :
                          queue'[j] = StatusEv(call'.arg[k].email, "Contacted") ]_vars

\* the events of seq are in the order they were put
InPublishOrder(seq) ==
    \A j, k \in 1..Len(seq) : j < k => seq[j].idx < seq[k].idx

\* C16: what a subscriber was given is in publish order; once a subscriber
\* is cancelled it is given nothing more; the step that cancels it leaves
\* the queue as it was; and a handler can put its next event whatever the
\* subscribers' states are.
C16_DeliveredInPublishOrder ==
    [][ \A s \in SubIds :
          /\ InPublishOrder(subs'[s].got)
          /\ Affords(1) => ENABLED bus_emit
          /\ subs[s].state = "cancelled" => subs'[s] = subs[s]
          /\ (subs[s].state = "waiting" /\ subs'[s].state = "cancelled") =>
                 (queue' = queue /\ subs'[s].got = subs[s].got) ]_vars

C16_Witness ==
    \E s \in SubIds :
        /\ subs[s].state = "cancelled"
        /\ Len(subs[s].got) >= 2
        /\ queue # <<>>

\* the event put n-th is still in the queue
Queued(n) == \E k \in 1..Len(queue) : queue[k].idx = n

\* the event put n-th was given to subscriber s
GivenTo(s, n) == \E k \in 1..Len(subs[s].got) : subs[s].got[k].idx = n

\* C17: every event put while a subscriber is connected, once it has left
\* the queue, has been given to that subscriber.
C17_EverySubscriberGetsEveryEvent ==
    \A s \in SubIds :
        subs[s].state = "waiting" =>
            \A n \in (subs[s].since + 1)..npub : Queued(n) \/ GivenTo(s, n)

IsDemo(r) == task[r].kind = "demo"

\* C19: while a scripted outreach sequence is live, no other task (another
\* sequence, or the task of a run) is live.
C19_DemoSequenceRunsAlone ==
    \A r \in Slots : (IsDemo(r) /\ Live(r)) => LiveTasks = { r }

\* a schedule-on-reply request was answered in this step
ScheduleAnswered ==
    call' # call /\ call'.op = "schedule_on_reply" /\ lastResp'.ep = "schedule-on-reply"

\* the events put in this step
JustPut == SubSeq(queue', Len(queue) + 1, Len(queue'))

\* the listed entries that have an email, a token, and a reply for the token
HasReply(e) == e.email # "" /\ e.refToken # "" /\ e.msgs = "reply"

\* the request's effects are those of the entries with a reply, in list
\* order: one meeting and one Accepted event each, no other status event,
\* and no status change for an email none of them names
OnlyRepliersScheduled ==
    LET hit == SelectSeq(call'.arg, HasReply)
    IN  /\ call'.ret = [k \in 1..Len(hit) |-> hit[k].email]
        /\ SelectSeq(JustPut, LAMBDA ev : ev.kind = "candidate_status") =
              [k \in 1..Len(hit) |-> StatusEv(hit[k].email, "Accepted")]
        /\ \A em \in Emails :
              IF Known(store, em) /\ \E k \in 1..Len(hit) : hit[k].email = em
              THEN store'[em] = [store[em] EXCEPT !.status = "Accepted"]
              ELSE store'[em] = store[em]

C23_StatusInEnumeration ==
    \A e \in Emails :
        Known(store, e) =>
            store[e].status \in { "Sourced", "Contacted", "Accepted", "Scheduled", "Declined" }

\* every candidate of the run's list that has an email was given to send_email
AllAttempted(r) ==
    task[r].attempts = EnrichedEmails(SelectSeq(task[r].cands, HasEmail))

\* C24: a body template that does not render does not abort the run: unless
\* a provider call raised, a run that has ended has sent to every candidate
\* of its list that has an email, and has put its done event.
C24_RenderFailureDoesNotAbort ==
    \A r \in Slots :
        (IsFlow(r) /\ Terminated(r)
                   /\ task[r].failedAt \notin { "send", "lookup", "schedule" }) =>
            (AllAttempted(r) /\ task[r].dones = 1)

\* what the worker thread of run r has handed to the callbacks so far, in
\* call order
Invoked(r) ==
    IF task[r].mode \in { "", "launch" } THEN <<>>
    ELSE << Of(r, LogEv("launch")) >> \o
         [k \in 1..task[r].tpos |-> Of(r, Script(task[r].mode)[k])]

C26_FlagSetOnlyWhileRunTaskLives ==
    active_run =>
        \E r \in Slots :
            /\ Live(r) /\ task[r].kind \in { "run", "flow" }
            /\ task[r].id = owner

\* C27: from every state in which bus.active_run is set, a state in which
\* it is clear is eventually reached.
C27_ActiveRunEventuallyCleared ==
    active_run ~> ~active_run

\* the publish ordinals of a sequence of events
Ordinals(seq) == [k \in 1..Len(seq) |-> seq[k].idx]

\* C28: a handler can put an event when no subscriber is connected; the
\* event stays in the queue, and the events put before the first subscriber
\* connected are given to it in publish order.
C28_EventsWaitForFirstSubscriber ==
    /\ ((\A s \in SubIds : subs[s].state = "none") /\ Affords(1)) => ENABLED bus_emit
    /\ (\A s \in SubIds : subs[s].state = "none") =>
           Ordinals(queue) = [k \in 1..npub |-> k]
    /\ \A s \in SubIds :
           (subs[s].state = "waiting" /\ \A o \in SubIds \ { s } : subs[o].state = "none") =>
               Ordinals(subs[s].got \o queue) = [k \in 1..npub |-> k]

C28_Witness ==
    \E s \in SubIds :
        /\ subs[s].state = "waiting" /\ subs[s].since >= 2
        /\ \A o \in SubIds \ { s } : subs[o].state = "none"
        /\ Len(subs[s].got) >= 2

\* a candidate_status event that names its candidate by email
NamesEmail(ev) == ev.kind = "candidate_status" /\ ev.who # ""

\* C29: for every candidate_status event put with an email, the registry
\* holds a candidate with that email, and its status is the event's.
C29_StatusEventMatchesRegistry ==
    [][ \A k \in 1..Len(JustPut) :
          NamesEmail(JustPut[k]) =>
              /\ Known(store', JustPut[k].who)
              /\ store'[JustPut[k].who].status = JustPut[k].val ]_vars

\* C30: no step of a send request or of a run sets back to Contacted a
\* candidate whose status is Accepted or Scheduled.
C30_SendNeverMovesStatusBack ==
    [][ \A e \in Emails :
          store[e].status \in { "Accepted", "Scheduled" } =>
              store'[e].status # "Contacted" ]_vars

====
